---- MODULE Spec2Model ----
(***************************************************************************)
(* A model of pylibcheck.py: stdlib (the standard-library classifier),     *)
(* compare (the module-set differ) and run (the driver).                   *)
(*                                                                         *)
(* A module name is a sequence of character codes (ASCII), so that         *)
(* str.lower, str.startswith, the "in" test for '.', str.partition and     *)
(* the string order used by list.sort are computed as Python computes      *)
(* them.                                                                   *)
(***************************************************************************)
EXTENDS Integers, Sequences, FiniteSets, Bags, TLC

VARIABLES
    \* ---- compare called on its own (SpecCompare)
    cInitial, cLater, cIgnore,   \* the three arguments
    cResult,                     \* the list the last call returned
    cPhase,                      \* "fresh" | "called" | "reordered" | "recalled"
    \* ---- the interpreter's process-wide state
    isdir,                       \* the directories that exist (os.path.isdir)
    DEFAULT_SYS_PATHS,           \* the module-level tuple, built at load
    sysPath,                     \* sys.path: [id |-> list identity, items |-> contents]
    sysPath0,                    \* sys.path as it was before the first call
    sysModules,                  \* the keys of sys.modules, in insertion order
    \* ---- stdlib's frames, one per thread
    frame,
    ncalls,                      \* direct stdlib calls each thread has started
    nimports,                    \* direct imports each thread has made
    impOn,                       \* what each thread's last import resolved against
    serial,                      \* callers take turns (TRUE) or interleave (FALSE)
    \* ---- run's frame (main thread)
    rpc, args, idx, before, newmods, non_stdlib, seen, jdx,
    out,                         \* the lines printed
    calls,                       \* run's calls of stdlib, with their answers
    exc                          \* the exception that left run, or "none"

cmpVars == <<cInitial, cLater, cIgnore, cResult, cPhase>>
envVars == <<isdir, DEFAULT_SYS_PATHS, sysPath, sysPath0, sysModules>>
thrVars == <<frame, ncalls, nimports, impOn, serial>>
runVars == <<rpc, args, idx, before, newmods, non_stdlib, seen, jdx, out, calls, exc>>
vars == <<cmpVars, envVars, thrVars, runVars>>

(***************************************************************************)
(* Bounds of the model.                                                    *)
(***************************************************************************)
MaxLater == 3     \* longest `later` sequence handed to compare
MaxSide == 1      \* longest `initial` and `ignore` sequences handed to compare
MaxArgs == 2      \* longest target list handed to run
MaxCalls == 1     \* direct stdlib calls, and direct imports, per thread

(***************************************************************************)
(* Characters and strings.                                                 *)
(***************************************************************************)
Dot == 46          \* '.'
Underscore == 95   \* '_'

\* str.lower on one character: 'A'..'Z' map to 'a'..'z'
LowerChar(c) == IF c >= 65 /\ c <= 90 THEN c + 32 ELSE c

\* s.lower()
Lower(s) == [k \in 1..Len(s) |-> LowerChar(s[k])]

\* s.startswith('_')
StartsWithUnderscore(s) == Len(s) >= 1 /\ s[1] = Underscore

\* '.' in s
HasDot(s) == \E k \in 1..Len(s) : s[k] = Dot

\* s.partition('.')[0]: the part before the first '.', the whole of s without one
PartitionHead(s) ==
    IF HasDot(s)
    THEN LET first == CHOOSE k \in 1..Len(s) :
                          s[k] = Dot /\ \A m \in 1..(k - 1) : s[m] # Dot
         IN  SubSeq(s, 1, first - 1)
    ELSE s

\* Python's a <= b on strings: by code point, a proper prefix first
StrLeq(a, b) ==
    \E k \in 0..Len(a) :
        /\ k <= Len(b)
        /\ \A m \in 1..k : a[m] = b[m]
        /\ \/ k = Len(a)
           \/ k < Len(b) /\ a[k + 1] < b[k + 1]

ToSet(s) == {s[k] : k \in 1..Len(s)}

SeqsUpTo(S, n) == UNION {[1..m -> S] : m \in 0..n}

(***************************************************************************)
(* compare                                                                 *)
(***************************************************************************)
\* list.sort(key=lambda s: s.lower()): stable, so elements with equal keys keep
\* the order they had. Insertion of the last element after every element whose
\* key is not greater.
RECURSIVE SortByLower(_)
\* (the list left as it was)
SortNone(s) == s
SortByLower(s) ==
    IF Len(s) = 0 THEN s
    ELSE LET rest == SortByLower(SubSeq(s, 1, Len(s) - 1))
             x == s[Len(s)]
             p == Cardinality({k \in 1..Len(rest) :
                                  StrLeq(Lower(rest[k]), Lower(x))})
         IN  SubSeq(rest, 1, p) \o <<x>> \o SubSeq(rest, p + 1, Len(rest))

\* the loop of compare: the elements of later that are kept
Kept(initial, later, ignore) ==
    SelectSeq(later, LAMBDA e : ~(e \in ToSet(initial) \/ e \in ToSet(ignore)))

\* (compare without the test of ignore)
compareNoIgnore(initial, later, ignore) ==
    LET kept == Kept(initial, later, <<>>)
        prefixed == SelectSeq(kept, StartsWithUnderscore)
        unprefixed == SelectSeq(kept, LAMBDA e : ~StartsWithUnderscore(e))
    IN  SortByLower(unprefixed) \o SortByLower(prefixed)
\* (compare without the two sorts)
compareRawOrder(initial, later, ignore) ==
    LET kept == Kept(initial, later, ignore)
        prefixed == SelectSeq(kept, StartsWithUnderscore)
        unprefixed == SelectSeq(kept, LAMBDA e : ~StartsWithUnderscore(e))
    IN  unprefixed \o prefixed
compare(initial, later, ignore) ==
    LET kept == Kept(initial, later, ignore)
        prefixed == SelectSeq(kept, StartsWithUnderscore)
        unprefixed == SelectSeq(kept, LAMBDA e : ~StartsWithUnderscore(e))
    IN  SortByLower(unprefixed) \o SortByLower(prefixed)

(***************************************************************************)
(* The names and the installation the model runs in.                       *)
(***************************************************************************)
n_os == <<111, 115>>                                        \* "os"
n_sys == <<115, 121, 115>>                                  \* "sys"
n_requests == <<114, 101, 113, 117, 101, 115, 116, 115>>    \* "requests"
n_requests_models == n_requests \o <<46, 109, 111, 100, 101, 108, 115>>
                                                            \* "requests.models"
n_thread == <<95, 116, 104, 114, 101, 97, 100>>             \* "_thread"
n_mp_main == <<95, 95, 109, 112, 95, 109, 97, 105, 110, 95, 95>>
                                                            \* "__mp_main__"
n_nope == <<110, 111, 112, 101>>                            \* "nope"
n_empty == <<>>                                             \* ""
n_rel == <<46, 114, 101, 108>>                              \* ".rel"
n_os_path == <<111, 115, 46, 112, 97, 116, 104>>            \* "os.path"
n_nul == <<110, 0>>                                         \* "n\0"

\* BASEDIR = os.path.dirname(traceback.__file__), as path components
BASEDIR == <<"usr", "lib", "python3">>
SUBDIRS == <<"lib-dynload">>
\* os.path.join(BASEDIR, subdir)
Join(dir, sub) == Append(dir, sub)
DYNLOAD == Join(BASEDIR, SUBDIRS[1])
\* where a distribution that has no lib-dynload keeps the extension modules
DISTRO == <<"usr", "lib", "python3", "plat-ext">>
\* where installed third-party packages live
SITE == <<"usr", "lib", "python3", "site-packages">>

\* tuple(filter(os.path.isdir, [BASEDIR] + [join(BASEDIR, s) for s in SUBDIRS]))
DefaultSysPaths(exists) ==
    SelectSeq(<<BASEDIR>> \o [k \in 1..Len(SUBDIRS) |-> Join(BASEDIR, SUBDIRS[k])],
              LAMBDA d : d \in exists)

\* the modules compiled into the interpreter
Builtins == {n_sys}

\* the top-level modules a directory holds
DirContents(d) ==
    CASE d = BASEDIR -> {n_os}
      [] d = DYNLOAD -> {n_thread}
      [] d = DISTRO  -> {n_thread}
      [] d = SITE    -> {n_requests}
      [] OTHER       -> {}

\* the names whose lookup raises something other than ImportError
\* (an embedded NUL makes os.stat raise ValueError)
LookupFaults == {n_nul}

\* imp.find_module(name) with sys.path = path: "found", "ImportError" or "Error"
FindModule(name, path, exists) ==
    IF name \in LookupFaults THEN "Error"
    ELSE IF \/ name \in Builtins
            \/ \E k \in 1..Len(path) :
                   path[k] \in exists /\ name \in DirContents(path[k])
         THEN "found"
         ELSE "ImportError"

\* the modules that importing a known module registers, in order
Loads(name) ==
    CASE name = n_requests        -> <<n_requests, n_thread, n_requests_models, n_mp_main>>
      [] name = n_requests_models -> <<n_requests, n_thread, n_requests_models, n_mp_main>>
      [] name = n_os              -> <<n_os>>
      [] name = n_thread          -> <<n_thread>>
      [] name = n_sys             -> <<n_sys>>
      [] OTHER                    -> <<>>

\* importlib.import_module(name), with the registry mods and sys.path = path:
\* what it raises ("ok" when nothing) and the registry afterwards
ImportModule(name, mods, path, exists) ==
    IF Len(name) >= 1 /\ name[1] = Dot
    THEN [raised |-> "TypeError", mods |-> mods]      \* relative name, no package
    ELSE IF name = <<>>
    THEN [raised |-> "ValueError", mods |-> mods]     \* "Empty module name"
    ELSE IF name \in ToSet(mods)
    THEN [raised |-> "ok", mods |-> mods]             \* already imported
    ELSE IF \/ Loads(name) = <<>>
            \/ /\ PartitionHead(name) \notin ToSet(mods)
               /\ FindModule(PartitionHead(name), path, exists) # "found"
    THEN [raised |-> "ImportError", mods |-> mods]
    ELSE [raised |-> "ok",
          mods |-> mods \o SelectSeq(Loads(name), LAMBDA m : m \notin ToSet(mods))]

\* what is handed to run, to stdlib and to import_module
Targets == {n_requests, n_requests_models, n_os, n_thread, n_nope, n_empty, n_rel}
CallNames == {n_os, n_sys, n_requests, n_thread, n_os_path, n_nope, n_nul}
ImportNames == {n_requests}
CompareNames == {<<97>>, <<65>>, <<66>>, <<95, 97>>, <<95, 66>>}
                                                \* "a", "A", "B", "_a", "_B"
SideNames == {<<97>>, <<95, 66>>}               \* "a", "_B"

Threads == {1, 2}
Main == 1
\* the main thread calls stdlib with any name, the other with two
CallNamesOf(t) == IF t = Main THEN CallNames ELSE {n_os, n_requests}

(***************************************************************************)
(* stdlib, one step per statement, in the frame of thread t.               *)
(***************************************************************************)
IdleFrame ==
    [pc |-> "idle", modname |-> <<>>, sys_path_orig |-> [id |-> 0, items |-> <<>>],
     result |-> "none", caller |-> "none",
     entry |-> [id |-> 0, items |-> <<>>], looked |-> <<>>]

AllIdle == \A t \in Threads : frame[t].pc = "idle"
\* a caller that serializes starts an operation only when no call is under way
MayStart(t) == frame[t].pc = "idle" /\ (serial => AllIdle)

\* an identity no live list has
FreshId ==
    LET used == {0, sysPath.id} \cup {frame[t].sys_path_orig.id : t \in Threads}
    IN  CHOOSE k \in 1..(Cardinality(Threads) + 2) :
            k \notin used /\ \A m \in 1..(k - 1) : m \in used

\* the frame of a call stdlib(modname) just entered
Entered(modname, caller) ==
    [IdleFrame EXCEPT !.pc = "check", !.modname = modname, !.caller = caller,
                      !.entry = sysPath]

\* line 47: if '.' in modname
\* (without the test)
RaisesOnDotNever(modname) == FALSE
RaisesOnDot(modname) == HasDot(modname)

\* lines 47-49
StdlibCheck(t) ==
    /\ frame[t].pc = "check"
    /\ frame' = [frame EXCEPT ![t] =
                   IF RaisesOnDot(frame[t].modname)
                   THEN [@ EXCEPT !.pc = "exit", !.result = "ValueError"]
                   ELSE [@ EXCEPT !.pc = "save"]]
    /\ UNCHANGED <<cmpVars, envVars, ncalls, nimports, impOn, serial, runVars>>

\* line 52: sys_path_orig = sys.path
StdlibSave(t) ==
    /\ frame[t].pc = "save"
    /\ frame' = [frame EXCEPT ![t] = [@ EXCEPT !.pc = "set", !.sys_path_orig = sysPath]]
    /\ UNCHANGED <<cmpVars, envVars, ncalls, nimports, impOn, serial, runVars>>

\* line 56: sys.path = list(sys_path), a new list with the tuple's items
\* (sys.path left as it is)
OverrideKeep(cur, sys_path) == cur
Override(cur, sys_path) == [id |-> FreshId, items |-> sys_path]

StdlibSet(t) ==
    /\ frame[t].pc = "set"
    /\ sysPath' = Override(sysPath, DEFAULT_SYS_PATHS)
    /\ frame' = [frame EXCEPT ![t] = [@ EXCEPT !.pc = "find"]]
    /\ UNCHANGED <<cmpVars, isdir, DEFAULT_SYS_PATHS, sysPath0, sysModules,
                   ncalls, nimports, impOn, serial, runVars>>

\* lines 59-64: the lookup and what the try statement makes of it
AnswerOf(found) ==
    CASE found = "found"       -> "True"
      [] found = "ImportError" -> "False"
      [] OTHER                 -> "Error"

StdlibFind(t) ==
    /\ frame[t].pc = "find"
    /\ frame' = [frame EXCEPT ![t] =
                   [@ EXCEPT !.pc = "finally",
                             !.result = AnswerOf(FindModule(frame[t].modname,
                                                            sysPath.items, isdir)),
                             !.looked = Append(frame[t].looked, sysPath.items)]]
    /\ UNCHANGED <<cmpVars, envVars, ncalls, nimports, impOn, serial, runVars>>

\* lines 65-66: finally: sys.path = sys_path_orig
\* (restoring in the else branch only; not restoring at all)
RestoredOnSuccessOnly(fr, cur) == IF fr.result = "True" THEN fr.sys_path_orig ELSE cur
RestoredNever(fr, cur) == cur
Restored(fr, cur) == fr.sys_path_orig

StdlibFinally(t) ==
    /\ frame[t].pc = "finally"
    /\ sysPath' = Restored(frame[t], sysPath)
    /\ frame' = [frame EXCEPT ![t] = [@ EXCEPT !.pc = "exit"]]
    /\ UNCHANGED <<cmpVars, isdir, DEFAULT_SYS_PATHS, sysPath0, sysModules,
                   ncalls, nimports, impOn, serial, runVars>>

\* a caller other than run calls stdlib(n)
DirectCall(t) ==
    /\ MayStart(t)
    /\ t = Main => rpc \in {"idle", "done", "raised"}
    /\ ncalls[t] < MaxCalls
    /\ \E n \in CallNamesOf(t) : frame' = [frame EXCEPT ![t] = Entered(n, "direct")]
    /\ ncalls' = [ncalls EXCEPT ![t] = @ + 1]
    /\ UNCHANGED <<cmpVars, envVars, nimports, impOn, serial, runVars>>

\* the call returns, or its exception reaches that caller, and the frame is gone
DirectExit(t) ==
    /\ frame[t].pc = "exit"
    /\ frame[t].caller = "direct"
    /\ frame' = [frame EXCEPT ![t] = IdleFrame]
    /\ UNCHANGED <<cmpVars, envVars, ncalls, nimports, impOn, serial, runVars>>

\* a caller other than run imports a module: the import resolves against
\* whatever sys.path is at that moment
DirectImport(t) ==
    /\ MayStart(t)
    /\ nimports[t] < MaxCalls
    /\ \E n \in ImportNames :
          LET r == ImportModule(n, sysModules, sysPath.items, isdir)
          IN  sysModules' = r.mods
    /\ impOn' = [impOn EXCEPT ![t] = IF sysPath.id = sysPath0.id
                                     THEN "original" ELSE "override"]
    /\ nimports' = [nimports EXCEPT ![t] = @ + 1]
    /\ UNCHANGED <<cmpVars, isdir, DEFAULT_SYS_PATHS, sysPath, sysPath0,
                   frame, ncalls, serial, runVars>>

(***************************************************************************)
(* run, one step per statement, on the main thread.                        *)
(***************************************************************************)
\* line 107: the ignore tuple
IGNORE == <<n_mp_main>>

\* lines 99-102: the line printed for an exception the try statement catches,
\* "none" for one it lets through
DiagnosticOf(raised) ==
    CASE raised = "ImportError"                 -> "ImportError"
      [] raised \in {"KeyError", "ValueError"}  -> "Invalid"
      [] OTHER                                  -> "none"

\* line 95
RunSnapshot ==
    /\ rpc = "idle"
    /\ AllIdle
    /\ before' = sysModules
    /\ idx' = 1
    /\ rpc' = "import"
    /\ UNCHANGED <<cmpVars, envVars, thrVars, args, newmods, non_stdlib, seen, jdx,
                   out, calls, exc>>

\* lines 96-102, one target
RunImport ==
    /\ rpc = "import"
    /\ idx <= Len(args)
    /\ LET r == ImportModule(args[idx], sysModules, sysPath.items, isdir)
       IN  /\ sysModules' = r.mods
           /\ IF r.raised = "ok"
              THEN UNCHANGED <<out, exc, rpc>>
              ELSE IF DiagnosticOf(r.raised) # "none"
              THEN /\ out' = Append(out, <<DiagnosticOf(r.raised), args[idx]>>)
                   /\ UNCHANGED <<exc, rpc>>
              ELSE /\ exc' = r.raised
                   /\ rpc' = "raised"
                   /\ UNCHANGED out
    /\ idx' = idx + 1
    /\ UNCHANGED <<cmpVars, isdir, DEFAULT_SYS_PATHS, sysPath, sysPath0, thrVars,
                   args, before, newmods, non_stdlib, seen, jdx, calls>>

\* lines 107-121
RunCompare ==
    /\ rpc = "import"
    /\ idx > Len(args)
    /\ newmods' = compare(before, sysModules, IGNORE)
    /\ rpc' = IF newmods' = <<>> THEN "done" ELSE "loop"
    /\ non_stdlib' = <<>>
    /\ seen' = {}
    /\ jdx' = 1
    /\ UNCHANGED <<cmpVars, envVars, thrVars, args, idx, before, out, calls, exc>>

\* line 127
\* (the name as it is)
BaseModNameWhole(modname) == modname
BaseModName(modname) == PartitionHead(modname)

\* line 129
\* (without the test of seen)
UnseenAlways(basemodname, seenNames) == TRUE
Unseen(basemodname, seenNames) == basemodname \notin seenNames

\* lines 123-130: one element of newmods, up to the call of stdlib
RunLoop ==
    /\ rpc = "loop"
    /\ jdx <= Len(newmods)
    /\ LET basemodname == BaseModName(newmods[jdx])
       IN  IF Unseen(basemodname, seen)
           THEN /\ frame' = [frame EXCEPT ![Main] = Entered(basemodname, "run")]
                /\ calls' = Append(calls, [name |-> basemodname, answer |-> "pending"])
                /\ rpc' = "call"
                /\ UNCHANGED jdx
           ELSE /\ jdx' = jdx + 1
                /\ UNCHANGED <<frame, calls, rpc>>
    /\ UNCHANGED <<cmpVars, envVars, ncalls, nimports, impOn, serial,
                   args, idx, before, newmods, non_stdlib, seen, out, exc>>

\* lines 130-132: stdlib has returned, or raised
RunAfterStdlib ==
    /\ rpc = "call"
    /\ frame[Main].pc = "exit"
    /\ LET fr == frame[Main]
       IN  /\ calls' = [calls EXCEPT ![Len(calls)].answer = fr.result]
           /\ IF fr.result \in {"True", "False"}
              THEN /\ non_stdlib' = IF fr.result = "False"
                                    THEN Append(non_stdlib, fr.modname)
                                    ELSE non_stdlib
                   /\ seen' = seen \cup {fr.modname}
                   /\ jdx' = jdx + 1
                   /\ rpc' = "loop"
                   /\ UNCHANGED exc
              ELSE /\ exc' = fr.result
                   /\ rpc' = "raised"
                   /\ UNCHANGED <<non_stdlib, seen, jdx>>
    /\ frame' = [frame EXCEPT ![Main] = IdleFrame]
    /\ UNCHANGED <<cmpVars, envVars, ncalls, nimports, impOn, serial,
                   args, idx, before, newmods, out>>

\* lines 134-135
RunPrint ==
    /\ rpc = "loop"
    /\ jdx > Len(newmods)
    /\ out' = out \o [k \in 1..Len(non_stdlib) |-> <<"dep", non_stdlib[k]>>]
    /\ rpc' = "done"
    /\ UNCHANGED <<cmpVars, envVars, thrVars, args, idx, before, newmods,
                   non_stdlib, seen, jdx, calls, exc>>

(***************************************************************************)
(* compare called on its own, and the registry listed in another order.    *)
(***************************************************************************)
CallCompare ==
    /\ cPhase \in {"fresh", "reordered"}
    /\ cResult' = compare(cInitial, cLater, cIgnore)
    /\ cPhase' = IF cPhase = "fresh" THEN "called" ELSE "recalled"
    /\ UNCHANGED <<cInitial, cLater, cIgnore, envVars, thrVars, runVars>>

\* the same names reach compare in another order: two neighbours swapped
Reorder ==
    /\ cPhase \in {"called", "recalled"}
    /\ \E k \in 1..(Len(cLater) - 1) :
          /\ cLater[k] # cLater[k + 1]
          /\ cLater' = [cLater EXCEPT ![k] = cLater[k + 1], ![k + 1] = cLater[k]]
    /\ cPhase' = "reordered"
    /\ UNCHANGED <<cInitial, cIgnore, cResult, envVars, thrVars, runVars>>

(***************************************************************************)
(* The specifications.                                                     *)
(***************************************************************************)
\* the installations: lib-dynload exists, or the extensions are elsewhere
Installations == {{BASEDIR, DYNLOAD, SITE}, {BASEDIR, DISTRO, SITE}}
\* the caller's sys.path: with or without the installed packages
OriginalPaths(exists) ==
    LET ext == IF DYNLOAD \in exists THEN DYNLOAD ELSE DISTRO
    IN  {<<BASEDIR, ext, SITE>>, <<BASEDIR, ext>>}

InitCompareIdle ==
    /\ cInitial = <<>>
    /\ cLater = <<>>
    /\ cIgnore = <<>>
    /\ cResult = <<>>
    /\ cPhase = "fresh"

InitEnv ==
    /\ isdir \in Installations
    /\ DEFAULT_SYS_PATHS = DefaultSysPaths(isdir)
    /\ \E p \in OriginalPaths(isdir) : sysPath = [id |-> 0, items |-> p]
    /\ sysPath0 = sysPath
    /\ sysModules = <<n_sys, n_os>>

InitThreads ==
    /\ frame = [t \in Threads |-> IdleFrame]
    /\ ncalls = [t \in Threads |-> 0]
    /\ nimports = [t \in Threads |-> 0]
    /\ impOn = [t \in Threads |-> "none"]

InitRunIdle ==
    /\ rpc = "idle"
    /\ idx = 0
    /\ before = <<>>
    /\ newmods = <<>>
    /\ non_stdlib = <<>>
    /\ seen = {}
    /\ jdx = 0
    /\ out = <<>>
    /\ calls = <<>>
    /\ exc = "none"

\* the program as it is: one thread, run and direct calls of stdlib in turn
Init ==
    /\ InitCompareIdle
    /\ InitEnv
    /\ InitThreads
    /\ serial = TRUE
    /\ InitRunIdle
    /\ args \in SeqsUpTo(Targets, MaxArgs)

Next ==
    \/ RunSnapshot
    \/ RunImport
    \/ RunCompare
    \/ RunLoop
    \/ RunAfterStdlib
    \/ RunPrint
    \/ DirectCall(Main)
    \/ DirectExit(Main)
    \/ StdlibCheck(Main)
    \/ StdlibSave(Main)
    \/ StdlibSet(Main)
    \/ StdlibFind(Main)
    \/ StdlibFinally(Main)

Spec == Init /\ [][Next]_vars

\* two threads that call stdlib and import, in turn or interleaved
InitConc ==
    /\ InitCompareIdle
    /\ isdir = {BASEDIR, DYNLOAD, SITE}
    /\ DEFAULT_SYS_PATHS = DefaultSysPaths(isdir)
    /\ sysPath = [id |-> 0, items |-> <<BASEDIR, DYNLOAD, SITE>>]
    /\ sysPath0 = sysPath
    /\ sysModules = <<n_sys, n_os>>
    /\ InitThreads
    /\ serial \in BOOLEAN
    /\ InitRunIdle
    /\ args = <<>>

NextConc ==
    \E t \in Threads :
        \/ DirectCall(t)
        \/ DirectExit(t)
        \/ DirectImport(t)
        \/ StdlibCheck(t)
        \/ StdlibSave(t)
        \/ StdlibSet(t)
        \/ StdlibFind(t)
        \/ StdlibFinally(t)

SpecConc == InitConc /\ [][NextConc]_vars

\* compare on its own, its arguments drawn from bounded sets
InitCompare ==
    /\ cInitial \in SeqsUpTo(SideNames, MaxSide)
    /\ cLater \in SeqsUpTo(CompareNames, MaxLater)
    /\ cIgnore \in SeqsUpTo(SideNames, MaxSide)
    /\ cResult = <<>>
    /\ cPhase = "fresh"
    /\ isdir = {BASEDIR, DYNLOAD, SITE}
    /\ DEFAULT_SYS_PATHS = DefaultSysPaths(isdir)
    /\ sysPath = [id |-> 0, items |-> <<BASEDIR, DYNLOAD, SITE>>]
    /\ sysPath0 = sysPath
    /\ sysModules = <<n_sys, n_os>>
    /\ InitThreads
    /\ serial = TRUE
    /\ InitRunIdle
    /\ args = <<>>

NextCompare ==
    \/ CallCompare
    \/ Reorder

SpecCompare == InitCompare /\ [][NextCompare]_vars

(***************************************************************************)
(* The properties.                                                         *)
(***************************************************************************)
Count(s, x) == Cardinality({k \in 1..Len(s) : s[k] = x})
NoDuplicates(s) == \A k, m \in 1..Len(s) : s[k] = s[m] => k = m
InCall(t) == frame[t].pc # "idle"
AtExit(t) == frame[t].pc = "exit"

\* C1: for a non-dotted name, stdlib answers True exactly when the name is found
\* with sys.path being the override list, and False when that lookup raises
\* not-found; the one lookup it makes is against the override, whatever the
\* caller's own sys.path finds.
C1_AnswerIsRestrictedLookup ==
    \A t \in Threads :
        (AtExit(t) /\ ~HasDot(frame[t].modname)) =>
            LET found == FindModule(frame[t].modname, DEFAULT_SYS_PATHS, isdir)
            IN  /\ frame[t].looked = <<DEFAULT_SYS_PATHS>>
                /\ found = "found" <=> frame[t].result = "True"
                /\ found = "ImportError" <=> frame[t].result = "False"

\* a name the caller's own sys.path finds is answered False
C1_Witness ==
    /\ AtExit(Main)
    /\ frame[Main].modname = n_requests
    /\ frame[Main].result = "False"
    /\ FindModule(n_requests, sysPath0.items, isdir) = "found"

\* C2: a call of stdlib with a dotted name ends in ValueError, having made no
\* lookup and with sys.path the list it was when the call started.
C2_DottedRaisesFirst ==
    \A t \in Threads :
        (InCall(t) /\ HasDot(frame[t].modname)) =>
            /\ frame[t].pc \in {"check", "exit"}
            /\ frame[t].looked = <<>>
            /\ sysPath = frame[t].entry
            /\ AtExit(t) => frame[t].result = "ValueError"

C2_Witness ==
    /\ AtExit(Main)
    /\ frame[Main].modname = n_os_path
    /\ frame[Main].result = "ValueError"
    /\ sysPath = sysPath0

\* C3: when a call of stdlib ends, however it ends, sys.path is the list (same
\* identity, same items) it was when the call started; between serialized calls
\* sys.path is what it was before the first one, and DEFAULT_SYS_PATHS is what
\* the module built at load.
C3_PathRestored ==
    /\ \A t \in Threads : AtExit(t) => sysPath = frame[t].entry
    /\ AllIdle => sysPath = sysPath0
    /\ DEFAULT_SYS_PATHS = DefaultSysPaths(isdir)

\* the exit by an exception other than ImportError, after a run's own calls
C3_Witness ==
    /\ AtExit(Main)
    /\ frame[Main].result = "Error"
    /\ frame[Main].looked # <<>>
    /\ Len(calls) >= 2
    /\ sysPath = sysPath0

\* C4: compare's result holds each element of later that is in neither initial
\* nor ignore as many times as later does, and nothing else; it is empty when
\* later equals initial and when later is empty.
C4_ExactDifference ==
    cPhase # "fresh" =>
        /\ \A x \in ToSet(cLater) \cup ToSet(cResult) \cup ToSet(cInitial) \cup ToSet(cIgnore) :
              Count(cResult, x) =
                  IF x \in ToSet(cInitial) \/ x \in ToSet(cIgnore)
                  THEN 0 ELSE Count(cLater, x)
        /\ cLater = cInitial => cResult = <<>>
        /\ cLater = <<>> => cResult = <<>>

\* a result that keeps a duplicate and drops an ignored name
C4_Witness ==
    /\ cPhase = "called"
    /\ ~NoDuplicates(cResult)
    /\ \E x \in ToSet(cIgnore) : x \in ToSet(cLater) /\ x \notin ToSet(cInitial)

\* C5: in compare's result no element that starts with '_' comes before one that
\* does not, and neighbours of the same group are in non-decreasing order of
\* their lower-cased form.
C5_OrderingLaw ==
    cPhase # "fresh" =>
        /\ \A k, m \in 1..Len(cResult) :
              (k < m /\ StartsWithUnderscore(cResult[k])) => StartsWithUnderscore(cResult[m])
        /\ \A k \in 1..(Len(cResult) - 1) :
              (StartsWithUnderscore(cResult[k]) <=> StartsWithUnderscore(cResult[k + 1]))
                  => StrLeq(Lower(cResult[k]), Lower(cResult[k + 1]))

\* "a", "B", "_a" from a later that lists them in another order
C5_Witness ==
    /\ cPhase = "called"
    /\ cResult = <<<<97>>, <<66>>, <<95, 97>>>>
    /\ cLater # cResult

\* the top-level names of a list of module names
Tops(mods) == {PartitionHead(mods[k]) : k \in 1..Len(mods)}
CallNamesOfRun == {calls[k].name : k \in 1..Len(calls)}

\* C6: run never calls stdlib with a dotted name nor twice with the same name,
\* calls it only with top-level names of compare's list, and by the end of the
\* run has called it for every one of them.
C6_OncePerTopLevel ==
    /\ \A k \in 1..Len(calls) : ~HasDot(calls[k].name)
    /\ \A k, m \in 1..Len(calls) : calls[k].name = calls[m].name => k = m
    /\ CallNamesOfRun \subseteq Tops(newmods)
    /\ rpc = "done" => CallNamesOfRun = Tops(newmods)

\* a finished run whose list held a package and its submodule
C6_Witness ==
    /\ rpc = "done"
    /\ n_requests \in ToSet(newmods)
    /\ n_requests_models \in ToSet(newmods)
    /\ Len(calls) = 2

\* the names printed as dependencies, in order
Reported == LET deps == SelectSeq(out, LAMBDA line : line[1] = "dep")
            IN  [k \in 1..Len(deps) |-> deps[k][2]]
AnsweredWith(name, answer) ==
    \E k \in 1..Len(calls) : calls[k].name = name /\ calls[k].answer = answer
\* the top-level names of newmods that stdlib answered False for, each at its
\* first occurrence
ExpectedReport ==
    LET first == SelectSeq([k \in 1..Len(newmods) |-> k],
                           LAMBDA k : /\ \A m \in 1..(k - 1) :
                                           PartitionHead(newmods[m]) # PartitionHead(newmods[k])
                                      /\ AnsweredWith(PartitionHead(newmods[k]), "False"))
    IN  [k \in 1..Len(first) |-> PartitionHead(newmods[first[k]])]

\* C7: a finished run has printed, as dependencies, the distinct top-level names
\* of compare's list that stdlib answered False for, once each, in the order of
\* their first occurrence in that list, and nothing is printed as a dependency
\* before; with the snapshots {os, sys} and {os, sys, requests, requests.models,
\* _thread, __mp_main__}, requests answered False and _thread True, the report
\* is requests alone.
C7_ReportedDependencies ==
    /\ rpc # "done" => Reported = <<>>
    /\ rpc = "done" => Reported = ExpectedReport
    /\ ( /\ rpc = "done"
         /\ ToSet(before) = {n_os, n_sys}
         /\ ToSet(sysModules) = {n_os, n_sys, n_requests, n_requests_models,
                                 n_thread, n_mp_main}
         /\ AnsweredWith(n_requests, "False")
         /\ AnsweredWith(n_thread, "True") )
       => Reported = <<n_requests>>

C7_Witness ==
    /\ rpc = "done"
    /\ ToSet(before) = {n_os, n_sys}
    /\ ToSet(sysModules) = {n_os, n_sys, n_requests, n_requests_models,
                            n_thread, n_mp_main}
    /\ newmods = <<n_requests, n_requests_models, n_thread>>
    /\ AnsweredWith(n_requests, "False")
    /\ AnsweredWith(n_thread, "True")
    /\ Reported = <<n_requests>>

\* a line of that kind was printed for that name
Printed(kind, name) == \E k \in 1..Len(out) : out[k] = <<kind, name>>

\* C8: no target ends the run: run is never left by an exception, and once the
\* imports are over every target has been attempted and every target that is
\* not in the registry has its skip diagnostic printed.
C8_FailedImportDoesNotAbort ==
    /\ rpc # "raised"
    /\ rpc \in {"loop", "call", "done"} =>
          /\ idx = Len(args) + 1
          /\ \A k \in 1..Len(args) :
                args[k] \notin ToSet(sysModules) =>
                    Printed("ImportError", args[k]) \/ Printed("Invalid", args[k])

\* C9: with the callers serialized no import resolves against the override and
\* sys.path is the original list whenever no call is under way.
C9_SerializedIsSafe ==
    serial =>
        /\ \A t \in Threads : impOn[t] # "override"
        /\ AllIdle => sysPath = sysPath0

\* interleaved: an import has resolved against the override, and both threads
\* have finished a call of stdlib with sys.path left as an override list
C9_Witness ==
    /\ ~serial
    /\ \E t \in Threads : impOn[t] = "override"
    /\ AllIdle
    /\ \A t \in Threads : ncalls[t] >= 1
    /\ sysPath.id # sysPath0.id
    /\ sysPath.items = DEFAULT_SYS_PATHS

\* no two different kept names have the same lower-cased form
NoCaseTies ==
    \A x, y \in ToSet(Kept(cInitial, cLater, cIgnore)) : Lower(x) = Lower(y) => x = y

\* C10 as stated: compare called again after later was reordered returns the
\* list it returned before.
C10_OrderIndependent ==
    [][cPhase' = "recalled" => cResult' = cResult]_vars

\* C10 as amended: compare called again after later was reordered returns the
\* list it returned before, provided no two different kept names have the same
\* lower-cased form.
C10_OrderIndependentWithoutCaseTies ==
    [][(cPhase' = "recalled" /\ NoCaseTies) => cResult' = cResult]_vars

C10_Witness ==
    /\ cPhase = "recalled"
    /\ NoCaseTies
    /\ Len(cResult) >= 2
    /\ NoDuplicates(cResult)
    /\ cLater # cResult

====
